---------------------------- MODULE Spec2Model ----------------------------
(***************************************************************************)
(* A model of lsystem.py: the LSystem class (string rewriting, the turtle  *)
(* interpreter, the geometry buffer and the PNG renderer).                  *)
(*                                                                         *)
(* Symbol sequences (Python strings) are sequences of one-character        *)
(* strings.  Turn angles are multiples of 90 degrees, so that cos and sin  *)
(* are 0, 1 or -1 and every coordinate is an integer; the heading is kept  *)
(* in degrees and, as in the code, is never normalised.  Floating-point    *)
(* rounding of math.radians, math.cos and math.sin is not modelled.        *)
(*                                                                         *)
(* An LSystem object is a record.  Besides the fields of the Python object *)
(* (axiom, state, n, rules, angle, thickness and the Turtle's pos, angle,  *)
(* states, vectors) it records what a caller observes of the latest call:  *)
(* its name (op), its argument (arg), the exception it raised (err), the   *)
(* surface passed to pygame.image.save (png), and the turtle as it was     *)
(* when the latest interpretation loop (line 140) began (start).           *)
(*                                                                         *)
(* The variable run holds one interpretation loop (lines 140-143) taken    *)
(* symbol by symbol: the sequence, the index of the next symbol, the       *)
(* turtle, the turtle the loop began with and the exception raised.        *)
(*                                                                         *)
(* The variable main holds a run of the script: the list given on the      *)
(* command line, nums as _parse_args returns it, the position in the loop  *)
(* over nums, the script's LSystem object, the files written so far and    *)
(* the exception that ended the script, with the call that raised it.      *)
(***************************************************************************)
EXTENDS Integers, Sequences, FiniteSets, TLC

\* Bounds of the model.
MaxGen == 3          \* step and step_to never go beyond this generation
MaxIter == 2         \* largest iteration count passed to step
MaxCalls == 4        \* number of calls made in one behaviour
MaxLen == 5          \* longest symbol sequence given to the interpreter alone
MaxArgs == 3         \* longest comma-separated list given on the command line

VARIABLES cfg, ls, calls, run, main

vars == <<cfg, ls, calls, run, main>>

None == "None"

\* ------------------------------------------------------------------------
\* Configurations: the arguments of LSystem.__init__.  rules.none models
\* the default argument rules=None; rules.map is the dict otherwise.
\* ------------------------------------------------------------------------
NoMap == [x \in {} |-> <<>>]

Dict(m) == [none |-> FALSE, map |-> m]

Config(axiom, rules, angle) ==
  [axiom |-> axiom, rules |-> rules, angle |-> angle, thickness |-> 1]

\* The Fibonacci word: axiom "A", rules A -> AB, B -> A.
Fibonacci ==
  Config(<<"A">>, Dict([x \in {"A", "B"} |->
                          IF x = "A" THEN <<"A", "B">> ELSE <<"A">>]), 90)

Configs ==
  { Fibonacci,
    \* an empty rule table
    Config(<<"X">>, Dict(NoMap), 90),
    \* draw and skip moves with turns
    Config(<<"+", "F">>, Dict([x \in {"F"} |-> <<"F", "-", "f", "F">>]), 90),
    \* balanced brackets
    Config(<<"X">>, Dict([x \in {"X"} |-> <<"F", "[", "+", "F", "]", "X">>]), 90),
    \* a ']' with nothing saved, met at generation 2
    Config(<<"Y">>, Dict([x \in {"X", "Y"} |->
                            IF x = "Y" THEN <<"F", "X">> ELSE <<"]", "F">>]), 90),
    \* a ']' with nothing saved, already in the axiom
    Config(<<"F", "]", "F">>, Dict(NoMap), 90),
    \* a '[' that is never closed
    Config(<<"[", "F", "-">>, Dict(NoMap), 90),
    \* only skip moves
    Config(<<"f", "+", "f">>, Dict(NoMap), 180),
    \* rules left at its default, None
    Config(<<"F">>, [none |-> TRUE, map |-> NoMap], 90) }

\* ------------------------------------------------------------------------
\* math.cos and math.sin of a heading that is a multiple of 90 degrees
\* ------------------------------------------------------------------------
Cos(a) == CASE a % 360 = 0 -> 1
            [] a % 360 = 180 -> -1
            [] OTHER -> 0

Sin(a) == CASE a % 360 = 90 -> 1
            [] a % 360 = 270 -> -1
            [] OTHER -> 0

\* ------------------------------------------------------------------------
\* LSystem.Turtle
\* ------------------------------------------------------------------------
Turtle == [pos |-> <<0, 0>>, angle |-> 0, states |-> <<>>, vectors |-> <<>>]

\* A turn to the other side.
turn_reversed(t, angle) == [t EXCEPT !.angle = @ - angle]

turn(t, angle) == [t EXCEPT !.angle = @ + angle]

\* A move that puts its segment in front of the buffer.
move_prepends(t, draw) ==
  LET old == t.pos
      new == <<old[1] + Cos(t.angle), old[2] + Sin(t.angle)>>
  IN  [t EXCEPT !.pos = new,
                !.vectors = IF draw THEN <<old, new>> \o @ ELSE @]

\* A move that appends its segment whatever draw says.
move_always_draws(t, draw) ==
  LET old == t.pos
      new == <<old[1] + Cos(t.angle), old[2] + Sin(t.angle)>>
  IN  [t EXCEPT !.pos = new, !.vectors = @ \o <<old, new>>]

move(t, draw) ==
  LET old == t.pos
      new == <<old[1] + Cos(t.angle), old[2] + Sin(t.angle)>>
  IN  [t EXCEPT !.pos = new,
                !.vectors = IF draw THEN @ \o <<old, new>> ELSE @]

push(t) == [t EXCEPT !.states = Append(@, <<t.pos, t.angle>>)]

\* A pop that restores the position and leaves the heading as it is.
pop_keeps_heading(t) ==
  LET saved == t.states[Len(t.states)]
  IN  [t EXCEPT !.states = SubSeq(@, 1, Len(@) - 1), !.pos = saved[1]]

\* list.pop() raises IndexError on an empty list: pop is only applied to
\* a turtle with a saved state (see interpret).
pop(t) ==
  LET saved == t.states[Len(t.states)]
  IN  [t EXCEPT !.states = SubSeq(@, 1, Len(@) - 1),
                !.pos = saved[1],
                !.angle = saved[2]]

get_vectors(o) == o.turtle.vectors

clear_vectors(t) == [t EXCEPT !.vectors = <<>>]

\* ------------------------------------------------------------------------
\* LSystem.__init__
\* ------------------------------------------------------------------------
NoPng == [saved |-> FALSE, width |-> 0, height |-> 0, lines |-> <<>>]

LSystem(c) ==
  [angle |-> c.angle, thickness |-> c.thickness, axiom |-> c.axiom,
   state |-> c.axiom, n |-> 0, rules |-> c.rules, turtle |-> Turtle,
   op |-> "__init__", arg |-> 0, err |-> None, png |-> NoPng, start |-> <<>>]

\* ------------------------------------------------------------------------
\* LSystem.step
\* ------------------------------------------------------------------------
\* A lookup whose default is the empty string: self.rules.get(x, '').
lookup_drops_unknown(rules, x) ==
  IF x \in DOMAIN rules.map THEN rules.map[x] ELSE <<>>

\* self.rules.get(x, x)
lookup(rules, x) == IF x \in DOMAIN rules.map THEN rules.map[x] ELSE <<x>>

\* A rewrite that applies the rules one after the other to the whole
\* sequence (state = state.replace(k, v) for each rule), so that a later rule
\* rewrites what an earlier one produced.
RECURSIVE replace(_, _, _)
replace(s, k, v) ==
  IF s = <<>> THEN <<>>
  ELSE (IF Head(s) = k THEN v ELSE <<Head(s)>>) \o replace(Tail(s), k, v)

RECURSIVE replace_each(_, _, _)
replace_each(rules, keys, s) ==
  IF keys = {} THEN s
  ELSE LET k == CHOOSE x \in keys : TRUE
       IN  replace_each(rules, keys \ {k}, replace(s, k, rules.map[k]))

rewrite_sequential(rules, s) == replace_each(rules, DOMAIN rules.map, s)

\* ''.join([self.rules.get(x, x) for x in self.state])
RECURSIVE rewrite(_, _)
rewrite(rules, s) ==
  IF s = <<>> THEN <<>>
  ELSE lookup(rules, Head(s)) \o rewrite(rules, Tail(s))

\* The symbols table of step: what one symbol does to the turtle.
dispatch(t, c, angle) ==
  CASE c = "+" -> turn(t, -angle)
    [] c = "-" -> turn(t, angle)
    [] c = "F" -> move(t, TRUE)
    [] c = "f" -> move(t, FALSE)
    [] c = "[" -> push(t)
    [] c = "]" -> pop(t)
    [] OTHER -> t

\* for c in self.state: ... func(self.turtle), from symbol i on.  The loop
\* ends at the first ']' met with no saved state, which raises IndexError.
RECURSIVE interpret(_, _, _, _)
interpret(t, s, i, angle) ==
  IF i > Len(s) THEN [turtle |-> t, err |-> None]
  ELSE IF t.states = <<>> /\ s[i] = "]" THEN [turtle |-> t, err |-> "IndexError"]
  ELSE interpret(dispatch(t, s[i], angle), s, i + 1, angle)

\* An iteration that forgets self.turtle.clear_vectors().
iteration_accumulates(o) ==
  LET t1 == o.turtle
  IN  IF o.rules.none
      THEN [o EXCEPT !.err = "AttributeError"]
      ELSE LET s1 == rewrite(o.rules, o.state)
               r == interpret(t1, s1, 1, o.angle)
           IN  [o EXCEPT !.state = s1,
                         !.turtle = r.turtle,
                         !.start = <<[t1 EXCEPT !.vectors = Len(@)]>>,
                         !.err = r.err,
                         !.n = IF r.err = None THEN @ + 1 ELSE @]

\* One iteration of the loop of step (lines 129-145).
iteration(o) ==
  LET t1 == clear_vectors(o.turtle)
  IN  IF o.rules.none
      THEN [o EXCEPT !.turtle = t1, !.err = "AttributeError"]
      ELSE LET s1 == rewrite(o.rules, o.state)
               r == interpret(t1, s1, 1, o.angle)
           IN  [o EXCEPT !.state = s1,
                         !.turtle = r.turtle,
                         !.start = <<[t1 EXCEPT !.vectors = Len(@)]>>,
                         !.err = r.err,
                         !.n = IF r.err = None THEN @ + 1 ELSE @]

\* for i in xrange(iter): an exception leaves the loop and the call.
RECURSIVE step_loop(_, _)
step_loop(o, iter) ==
  IF iter <= 0 THEN o
  ELSE LET o1 == iteration(o)
       IN  IF o1.err # None THEN o1 ELSE step_loop(o1, iter - 1)

\* A step whose self.n += 1 stands after the loop instead of inside it.
step_counts_once(o, iter) ==
  LET r == step_loop([o EXCEPT !.op = "step", !.arg = iter, !.err = None], iter)
  IN  IF iter > 0 /\ r.err = None THEN [r EXCEPT !.n = o.n + 1] ELSE r

step(o, iter) ==
  step_loop([o EXCEPT !.op = "step", !.arg = iter, !.err = None], iter)

\* ------------------------------------------------------------------------
\* LSystem.step_to
\* ------------------------------------------------------------------------
\* A step_to that passes its target to step as the iteration count.
step_to_absolute(o, n) ==
  IF ~(n >= o.n)
  THEN [o EXCEPT !.op = "step_to", !.arg = n, !.err = "AssertionError"]
  ELSE [step(o, n) EXCEPT !.op = "step_to", !.arg = n]

\* A step_to that rewinds instead of failing: reset, then step(n).
step_to_rewinds(o, n) ==
  IF ~(n >= o.n)
  THEN [step([o EXCEPT !.turtle = clear_vectors(@), !.state = o.axiom, !.n = 0], n)
          EXCEPT !.op = "step_to", !.arg = n]
  ELSE [step(o, n - o.n) EXCEPT !.op = "step_to", !.arg = n]

step_to(o, n) ==
  IF ~(n >= o.n)
  THEN [o EXCEPT !.op = "step_to", !.arg = n, !.err = "AssertionError"]
  ELSE [step(o, n - o.n) EXCEPT !.op = "step_to", !.arg = n]

\* ------------------------------------------------------------------------
\* LSystem.reset
\* ------------------------------------------------------------------------
\* A reset that forgets self.state = self.axiom.
reset_keeps_state(o) ==
  [o EXCEPT !.turtle = clear_vectors(@), !.n = 0,
            !.op = "reset", !.arg = 0, !.err = None]

reset(o) ==
  [o EXCEPT !.turtle = clear_vectors(@), !.state = o.axiom, !.n = 0,
            !.op = "reset", !.arg = 0, !.err = None]

\* ------------------------------------------------------------------------
\* LSystem._get_vector_bounds and LSystem.write_png
\* ------------------------------------------------------------------------
Min(S) == CHOOSE x \in S : \A y \in S : x <= y

Max(S) == CHOOSE x \in S : \A y \in S : x >= y

Column(v, k) == {v[i][k] : i \in 1..Len(v)}

\* Bounds returned in the order (x_min, x_max, y_min, y_max).
get_vector_bounds_swapped(o) ==
  LET v == get_vectors(o)
  IN  <<Min(Column(v, 1)), Max(Column(v, 1)), Min(Column(v, 2)), Max(Column(v, 2))>>

\* v.max(axis=0) raises ValueError on an array without rows: the bounds
\* are only taken of a buffer that has rows (see write_png).
get_vector_bounds(o) ==
  LET v == get_vectors(o)
  IN  <<Min(Column(v, 1)), Min(Column(v, 2)), Max(Column(v, 1)), Max(Column(v, 2))>>

x_mul == 5

y_mul == 5

buffer_space == 10

\* A line whose hue divides the row index by the number of segments.
Line_hue_by_segments(o, i, x_offset, y_offset) ==
  LET v == get_vectors(o)
      p1 == v[i + 1]
      p2 == v[i + 2]
  IN  [p1 |-> <<p1[1] * x_mul + x_offset, p1[2] * y_mul + y_offset>>,
       p2 |-> <<p2[1] * x_mul + x_offset, p2[2] * y_mul + y_offset>>,
       hue_num |-> i * 360, hue_den |-> Len(v) \div 2,
       thickness |-> o.thickness]

\* The line drawn for rows i and i+1 (i counted from 0 as in the code); the
\* hue (float(i) / num_v) * 360 is kept as the fraction hue_num / hue_den.
Line(o, i, x_offset, y_offset) ==
  LET v == get_vectors(o)
      p1 == v[i + 1]
      p2 == v[i + 2]
  IN  [p1 |-> <<p1[1] * x_mul + x_offset, p1[2] * y_mul + y_offset>>,
       p2 |-> <<p2[1] * x_mul + x_offset, p2[2] * y_mul + y_offset>>,
       hue_num |-> i * 360, hue_den |-> Len(v),
       thickness |-> o.thickness]

\* A write_png that saves an empty default surface when there is no geometry.
write_png_default(o) ==
  LET called == [o EXCEPT !.op = "write_png", !.arg = 0, !.err = None]
      num_v == Len(get_vectors(o))
  IN  IF num_v = 0
      THEN [called EXCEPT !.png =
              [saved |-> TRUE, width |-> buffer_space * 2,
               height |-> buffer_space * 2, lines |-> <<>>]]
      ELSE LET b == get_vector_bounds(o)
               x_offset == -b[1] * x_mul + buffer_space
               y_offset == -b[2] * y_mul + buffer_space
           IN  [called EXCEPT !.png =
                  [saved |-> TRUE,
                   width |-> (b[3] - b[1]) * x_mul + buffer_space * 2,
                   height |-> (b[4] - b[2]) * y_mul + buffer_space * 2,
                   lines |-> [k \in 1..(num_v \div 2) |->
                                Line(o, 2 * (k - 1), x_offset, y_offset)]]]

write_png(o) ==
  LET called == [o EXCEPT !.op = "write_png", !.arg = 0, !.err = None]
      num_v == Len(get_vectors(o))
  IN  IF num_v = 0
      THEN [called EXCEPT !.err = "ValueError"]
      ELSE LET b == get_vector_bounds(o)
               width == (b[3] - b[1]) * x_mul + buffer_space * 2
               height == (b[4] - b[2]) * y_mul + buffer_space * 2
               x_offset == -b[1] * x_mul + buffer_space
               y_offset == -b[2] * y_mul + buffer_space
           IN  [called EXCEPT !.png =
                  [saved |-> TRUE, width |-> width, height |-> height,
                   lines |-> [k \in 1..(num_v \div 2) |->
                                Line(o, 2 * (k - 1), x_offset, y_offset)]]]

\* ------------------------------------------------------------------------
\* The state machine.  ls[1] and ls[2] are two LSystem objects built from
\* the same configuration; Spec drives ls[1] alone, SpecPair drives both.
\* ------------------------------------------------------------------------
NoRun ==
  [syms |-> <<>>, pc |-> 1, turtle |-> Turtle, begin |-> Turtle,
   angle |-> 0, err |-> None]

NoMain ==
  [pc |-> "idle", args |-> <<>>, nums |-> <<>>, i |-> 1, ls |-> LSystem(Fibonacci),
   renders |-> <<>>, err |-> None, raised_by |-> None]

Init ==
  /\ cfg \in Configs
  /\ ls = [i \in 1..2 |-> LSystem(cfg)]
  /\ calls = 0
  /\ run = NoRun
  /\ main = NoMain

Call(i, o) ==
  /\ calls < MaxCalls
  /\ ls' = [ls EXCEPT ![i] = o]
  /\ calls' = calls + 1
  /\ UNCHANGED <<cfg, run, main>>

Step(i, iter) ==
  /\ ls[i].n + iter <= MaxGen
  /\ Call(i, step(ls[i], iter))

StepTo(i, n) == Call(i, step_to(ls[i], n))

Reset(i) == Call(i, reset(ls[i]))

WritePng(i) == Call(i, write_png(ls[i]))

Iters == -1..MaxIter

Gens == 0..MaxGen

Next ==
  \/ \E iter \in Iters : Step(1, iter)
  \/ \E n \in Gens : StepTo(1, n)
  \/ Reset(1)
  \/ WritePng(1)

Spec == Init /\ [][Next]_vars

NextPair ==
  \/ \E i \in 1..2, iter \in Iters : Step(i, iter)
  \/ \E i \in 1..2, n \in Gens : StepTo(i, n)
  \/ \E i \in 1..2 : Reset(i)
  \/ \E i \in 1..2 : WritePng(i)

SpecPair == Init /\ [][NextPair]_vars

\* ------------------------------------------------------------------------
\* The interpretation loop of step, one symbol an action.  The sequence is
\* any sequence of at most MaxLen symbols, given as the axiom of a system
\* without rules; the turtle is a new one, or one that an earlier pass has
\* left (step clears its vectors only).
\* ------------------------------------------------------------------------
Alphabet == {"F", "f", "+", "-", "[", "]", "X"}

Programs == UNION {[1..k -> Alphabet] : k \in 0..MaxLen}

StartTurtles ==
  { clear_vectors(Turtle),
    clear_vectors(interpret(Turtle, <<"[", "F", "-">>, 1, 90).turtle) }

InitTurtle ==
  /\ cfg \in {Config(p, Dict(NoMap), 90) : p \in Programs}
  /\ ls = [i \in 1..2 |-> LSystem(cfg)]
  /\ calls = 0
  /\ run \in {[syms |-> rewrite(cfg.rules, cfg.axiom), pc |-> 1, turtle |-> t,
                begin |-> t, angle |-> cfg.angle, err |-> None] :
               t \in StartTurtles}
  /\ main = NoMain

\* for c in self.state: if c in symbols: func(self.turtle)
Interp ==
  /\ run.err = None
  /\ run.pc <= Len(run.syms)
  /\ LET c == run.syms[run.pc]
     IN  IF c = "]" /\ run.turtle.states = <<>>
         THEN run' = [run EXCEPT !.err = "IndexError"]
         ELSE run' = [run EXCEPT !.turtle = dispatch(@, c, run.angle),
                                 !.pc = @ + 1]
  /\ UNCHANGED <<cfg, ls, calls, main>>

NextTurtle == Interp

SpecTurtle == InitTurtle /\ [][NextTurtle]_vars

\* ------------------------------------------------------------------------
\* _parse_args and the script (lines 234-251)
\* ------------------------------------------------------------------------
\* nums.remove(x): the list without its first x.
RECURSIVE remove(_, _)
remove(nums, x) ==
  IF Head(nums) = x THEN Tail(nums) ELSE <<Head(nums)>> \o remove(Tail(nums), x)

Contains(nums, x) == \E k \in 1..Len(nums) : nums[k] = x

\* The loop over num_args (lines 219-228), from argument k on.
RECURSIVE collect(_, _, _)
collect(args, k, nums) ==
  IF k > Len(args) THEN [err |-> None, nums |-> nums]
  ELSE LET n == args[k]
       IN  IF n > 0 THEN collect(args, k + 1, Append(nums, n))
           ELSE IF n < 0
                THEN IF Contains(nums, -n)
                     THEN collect(args, k + 1, remove(nums, -n))
                     ELSE [err |-> "ValueError", nums |-> nums]
                ELSE [err |-> "NameError", nums |-> nums]

\* nums.sort()
RECURSIVE insert(_, _)
insert(sorted, x) ==
  IF sorted = <<>> THEN <<x>>
  ELSE IF x <= Head(sorted) THEN <<x>> \o sorted
  ELSE <<Head(sorted)>> \o insert(Tail(sorted), x)

RECURSIVE sort(_)
sort(nums) ==
  IF nums = <<>> THEN <<>> ELSE insert(sort(Tail(nums)), Head(nums))

\* A _parse_args that forgets nums.sort().
parse_args_unsorted(args) ==
  LET r == collect(args, 1, <<>>)
  IN  IF r.err # None THEN r
      ELSE IF ~(Len(r.nums) > 0) THEN [err |-> "AssertionError", nums |-> r.nums]
      ELSE [err |-> None, nums |-> r.nums]

\* _parse_args, for the list of integers num_str holds.
parse_args(args) ==
  LET r == collect(args, 1, <<>>)
  IN  IF r.err # None THEN r
      ELSE IF ~(Len(r.nums) > 0) THEN [err |-> "AssertionError", nums |-> r.nums]
      ELSE [err |-> None, nums |-> sort(r.nums)]

ArgLists == UNION {[1..k -> (-MaxGen)..MaxGen] : k \in 1..MaxArgs}

\* load_file always passes a dict of rules.
InitMain ==
  /\ cfg \in {c \in Configs : ~c.rules.none}
  /\ ls = [i \in 1..2 |-> LSystem(cfg)]
  /\ calls = 0
  /\ run = NoRun
  /\ main \in {[NoMain EXCEPT !.pc = "parse", !.args = a, !.ls = LSystem(cfg)] :
                a \in ArgLists}

Raise(err, by) == [main EXCEPT !.pc = "done", !.err = err, !.raised_by = by]

\* infile, outfile, nums, verbose = _parse_args(); ls = LSystem.load_file(infile)
ParseArgs ==
  /\ main.pc = "parse"
  /\ LET r == parse_args(main.args)
     IN  main' = IF r.err # None THEN Raise(r.err, "_parse_args")
                 ELSE [main EXCEPT !.pc = "advance", !.nums = r.nums, !.i = 1]
  /\ UNCHANGED <<cfg, ls, calls, run>>

\* for n in nums: ls.step_to(n)
Advance ==
  /\ main.pc = "advance"
  /\ LET o == step_to(main.ls, main.nums[main.i])
     IN  main' = IF o.err # None THEN [Raise(o.err, "step_to") EXCEPT !.ls = o]
                 ELSE [main EXCEPT !.pc = "render", !.ls = o]
  /\ UNCHANGED <<cfg, ls, calls, run>>

\* ls.write_png(outfile), outfile named after n when there are several nums
RenderTarget ==
  /\ main.pc = "render"
  /\ LET o == write_png(main.ls)
         n == main.nums[main.i]
         file == IF Len(main.nums) > 1 THEN n ELSE 0
     IN  main' = IF o.err # None THEN [Raise(o.err, "write_png") EXCEPT !.ls = o]
                 ELSE [main EXCEPT
                         !.ls = o,
                         !.renders = Append(@, [target |-> n, n |-> o.n,
                                                file |-> file, png |-> o.png]),
                         !.i = @ + 1,
                         !.pc = IF main.i + 1 > Len(main.nums)
                                THEN "done" ELSE "advance"]
  /\ UNCHANGED <<cfg, ls, calls, run>>

NextMain == ParseArgs \/ Advance \/ RenderTarget

SpecMain == InitMain /\ [][NextMain]_vars

\* ------------------------------------------------------------------------
\* Properties
\* ------------------------------------------------------------------------
A == ls[1]

B == ls[2]

\* new is old with every symbol replaced, in place and in order, by its
\* replacement: off[i] is the length of what the first i symbols became.
IsSubstitution(rules, old, new) ==
  LET off[i \in 0..Len(old)] ==
        IF i = 0 THEN 0 ELSE off[i - 1] + Len(lookup(rules, old[i]))
  IN  /\ Len(new) = off[Len(old)]
      /\ \A i \in 1..Len(old) :
           SubSeq(new, off[i - 1] + 1, off[i]) = lookup(rules, old[i])

\* C1: one iteration of step replaces every symbol of the sequence it
\* started from by its replacement, in order, and rewrites nothing it has
\* just produced; the Fibonacci system reads AB, ABA, ABAAB at generations
\* 1, 2 and 3.
C1_Rewrite ==
  /\ [](cfg = Fibonacci =>
          /\ A.n = 0 => A.state = <<"A">>
          /\ A.n = 1 => A.state = <<"A", "B">>
          /\ A.n = 2 => A.state = <<"A", "B", "A">>
          /\ A.n = 3 => A.state = <<"A", "B", "A", "A", "B">>)
  /\ [][A'.op = "step" /\ A'.arg = 1 /\ A'.err # "AttributeError"
          => IsSubstitution(A.rules, A.state, A'.state)]_vars

C1_Witness ==
  cfg = Fibonacci /\ A.n = 3 /\ A.state = <<"A", "B", "A", "A", "B">>

\* C2: a call step(k) leaves the same sequence and the same generation as
\* step(a) followed by step(b), for every split a + b = k (when step(a)
\* raises, the exception ends the sequence of calls and step(b) is not made).
C2_Compositional ==
  [][A'.op = "step" =>
       \A a, b \in 0..MaxIter :
          a + b = A'.arg =>
            LET first == step(A, a)
                both == IF first.err # None THEN first ELSE step(first, b)
            IN  A'.state = both.state /\ A'.n = both.n]_vars

C2_Witness ==
  A.op = "step" /\ A.arg = 2 /\ A.n = 3 /\ A.err = None /\ Len(A.state) > 3

\* C3: every interpretation pass starts from position (0,0), heading 0,
\* an empty save-stack and an empty geometry buffer.
C3_FreshTurtle ==
  A.start # <<>> =>
    A.start[1] = [pos |-> <<0, 0>>, angle |-> 0, states |-> <<>>, vectors |-> 0]

\* The number of occurrences of symbol c in sequence s.
Count(c, s) == Cardinality({i \in 1..Len(s) : s[i] = c})

\* The number of segments get_vectors returns: two point rows a segment.
Segments(o) == Len(get_vectors(o)) \div 2

Complete(o) == o.err = None /\ Segments(o) = Count("F", o.state)

\* What a render of o gives its caller: the exception, or the surface saved.
Render(o) ==
  LET r == write_png(o)
  IN  [err |-> r.err, png |-> IF r.err = None THEN r.png ELSE NoPng]

\* C5: two objects built from the same configuration that are at the same
\* generation hold the same geometry buffer and render the same canvas
\* (stated for the objects that hold the geometry of a whole generation).
C5_Deterministic ==
  A.n = B.n /\ Complete(A) /\ Complete(B) =>
    /\ get_vectors(A) = get_vectors(B)
    /\ Render(A) = Render(B)

\* C6: step_to(n) with n below the current generation raises and leaves
\* the sequence, the generation, the turtle and the buffer as they were.
C6_StepToBackwards ==
  [][A'.op = "step_to" /\ A'.arg < A.n
       => /\ A'.err = "AssertionError"
          /\ A'.state = A.state
          /\ A'.n = A.n
          /\ A'.turtle = A.turtle]_vars

C6_Witness ==
  /\ A.op = "step_to" /\ A.err = "AssertionError"
  /\ A.arg = 1 /\ A.n = 3 /\ Segments(A) > 0

\* C7: when a ']' meets an empty save-stack the call raises and the buffer
\* does not keep the segments drawn before that ']'.
C7_PartialDiscarded ==
  A.err = "IndexError" => get_vectors(A) = <<>>

\* C8: write_png raises and saves nothing exactly when the buffer holds no
\* segment, which is the case of every sequence without 'F'; otherwise it
\* saves a surface with one line for each segment.
C8_EmptyGeometry ==
  /\ [](Count("F", A.state) = 0 => get_vectors(A) = <<>>)
  /\ [][A'.op = "write_png" =>
          IF Segments(A) = 0
          THEN A'.err = "ValueError" /\ A'.png = A.png
          ELSE /\ A'.err = None
               /\ A'.png.saved
               /\ Len(A'.png.lines) = Segments(A)]_vars

C8_Witness ==
  /\ A.op = "write_png" /\ A.err = "ValueError" /\ ~A.png.saved
  /\ A.n = 2 /\ Count("f", A.state) = 2 /\ A.turtle.angle # 0

\* C9: step and step_to never lower the generation; only reset does, and
\* reset leaves the axiom as the current sequence at generation 0.
C9_Monotonic ==
  [][/\ A'.op \in {"step", "step_to"} => A'.n >= A.n
     /\ A'.n < A.n => A'.op = "reset"
     /\ A'.op = "reset" => A'.state = A.axiom /\ A'.n = 0]_vars

C9_Witness ==
  /\ A.op = "reset" /\ A.n = 0 /\ A.state = A.axiom
  /\ A.start # <<>> /\ rewrite(A.rules, A.axiom) # A.axiom

\* C10: a sequence none of whose symbols has a rule is left as it is by
\* step and step_to; with an empty rule table the current sequence is the
\* axiom at every generation.
C10_Identity ==
  /\ [](~A.rules.none /\ DOMAIN A.rules.map = {} => A.state = A.axiom)
  /\ [][(/\ A'.op \in {"step", "step_to"}
          /\ \A i \in 1..Len(A.state) : A.state[i] \notin DOMAIN A.rules.map)
         => A'.state = A.state /\ Len(A'.state) = Len(A.state)]_vars

C10_Witness ==
  /\ ~A.rules.none /\ DOMAIN A.rules.map = {}
  /\ A.n = 3 /\ A.state = <<"X">> /\ A.axiom = <<"X">>

C14_NoAccumulation ==
  [][A'.op \in {"step", "step_to"} /\ A'.err = None /\ A'.n > A.n =>
       /\ A'.start[1].vectors = 0
       /\ get_vectors(A') =
            interpret([A'.start[1] EXCEPT !.vectors = <<>>],
                      A'.state, 1, A'.angle).turtle.vectors]_vars

C14_Witness ==
  /\ A.op = "step" /\ A.arg = 2 /\ A.err = None /\ A.n = 2
  /\ A.start[1].pos # <<0, 0>> /\ Segments(A) = 4

\* C16: a successful write_png of N segments draws N lines, the k-th for
\* the k-th segment of the buffer, with hue ((k-1) / N) * 360: 0 for the
\* first, strictly increasing, always below 360.
C16_HueRamp ==
  [][A'.op = "write_png" /\ A'.err = None =>
       LET N == Segments(A)
           v == get_vectors(A)
           L == A'.png.lines
       IN  /\ N >= 1 /\ Len(L) = N
           /\ L[1].hue_num = 0
           /\ \A k \in 1..N :
                /\ L[k].hue_den > 0
                /\ L[k].hue_num * N = (k - 1) * 360 * L[k].hue_den
                /\ L[k].hue_num < 360 * L[k].hue_den
                /\ k < N => L[k].hue_num * L[k + 1].hue_den
                              < L[k + 1].hue_num * L[k].hue_den
                /\ \A d \in 1..2 :
                     /\ L[k].p2[d] - L[k].p1[d] = 5 * (v[2 * k][d] - v[2 * k - 1][d])
                     /\ L[k].p1[d] - L[1].p1[d] = 5 * (v[2 * k - 1][d] - v[1][d])]_vars

C16_Witness ==
  /\ A.op = "write_png" /\ A.err = None /\ Len(A.png.lines) = 4
  /\ A.png.lines[4].hue_num * 4 = 3 * 360 * A.png.lines[4].hue_den

\* C17: a successful write_png makes a surface (max_x - min_x) * 5 + 20
\* wide and (max_y - min_y) * 5 + 20 high, maps the point (x, y) to the
\* pixel ((x - min_x) * 5 + 10, (y - min_y) * 5 + 10), so the minimum
\* corner to (10, 10), and every end point at least 10 pixels inside.
C17_BoundsFit ==
  [][A'.op = "write_png" /\ A'.err = None =>
       LET v == get_vectors(A)
           lo == [d \in 1..2 |-> Min(Column(v, d))]
           hi == [d \in 1..2 |-> Max(Column(v, d))]
           size == <<A'.png.width, A'.png.height>>
           L == A'.png.lines
       IN  /\ \A d \in 1..2 : size[d] = (hi[d] - lo[d]) * 5 + 20
           /\ \A k \in 1..Len(L), d \in 1..2 :
                /\ L[k].p1[d] = (v[2 * k - 1][d] - lo[d]) * 5 + 10
                /\ L[k].p2[d] = (v[2 * k][d] - lo[d]) * 5 + 10
                /\ 10 <= L[k].p1[d] /\ L[k].p1[d] <= size[d] - 10
                /\ 10 <= L[k].p2[d] /\ L[k].p2[d] <= size[d] - 10
           /\ \A d \in 1..2 :
                /\ \E k \in 1..Len(L) : 10 \in {L[k].p1[d], L[k].p2[d]}
                /\ \E k \in 1..Len(L) : size[d] - 10 \in {L[k].p1[d], L[k].p2[d]}]_vars

C17_Witness ==
  /\ A.op = "write_png" /\ A.err = None /\ A.png.saved
  /\ A.png.width > 20 /\ A.png.height > 20
  /\ Min(Column(get_vectors(A), 2)) < 0

\* The sequence n rewrites away from s.
RECURSIVE rewrite_n(_, _, _)
rewrite_n(rules, s, n) ==
  IF n = 0 THEN s ELSE rewrite_n(rules, rewrite(rules, s), n - 1)

\* C18: in every state, also after a step that failed part-way, the
\* current sequence is the axiom rewritten n times, n the stored generation.
C18_SequenceMatchesGeneration ==
  A.state = rewrite_n(A.rules, A.axiom, A.n)

\* The turtle of run after the first k symbols of its sequence.
TurtleAfter(k) ==
  interpret(run.begin, SubSeq(run.syms, 1, k), 1, run.angle).turtle

\* The number of '[' not yet closed among the first k symbols of run.
Depth(k) ==
  Count("[", SubSeq(run.syms, 1, k)) - Count("]", SubSeq(run.syms, 1, k))

\* Symbol i is a '[' and symbol j the ']' that closes it.
Matching(i, j) ==
  /\ i < j /\ run.syms[i] = "[" /\ run.syms[j] = "]"
  /\ Depth(j) = Depth(i - 1)
  /\ \A m \in i..(j - 1) : Depth(m) > Depth(i - 1)

\* C12: when the loop has just passed a ']', the position, the heading and
\* the save-stack are those from before the '[' it closes, and the buffer
\* is the buffer from before that '[' followed by one segment for every
\* 'F' between the two.
C12_SaveRestore ==
  \A i \in 1..Len(run.syms) :
     Matching(i, run.pc - 1) =>
       LET before == TurtleAfter(i - 1)
           now == run.turtle
       IN  /\ now.pos = before.pos
           /\ now.angle = before.angle
           /\ now.states = before.states
           /\ SubSeq(now.vectors, 1, Len(before.vectors)) = before.vectors
           /\ Len(now.vectors) = Len(before.vectors)
                + 2 * Count("F", SubSeq(run.syms, i, run.pc - 1))

C12_Witness ==
  /\ run.syms = <<"F", "[", "+", "F", "]">> /\ run.pc = 6
  /\ run.begin = Turtle
  /\ run.turtle.pos = <<1, 0>> /\ run.turtle.angle = 0
  /\ run.turtle.states = <<>> /\ Len(run.turtle.vectors) = 4

\* C13: what one symbol does to the turtle.  'f' moves by one unit and
\* appends nothing; 'F' moves by one unit and appends the segment from the
\* old to the new position; '+' and '-' change the heading by -angle and
\* +angle and nothing else; '[' and ']' leave the buffer alone; any other
\* symbol changes nothing.
C13_Frames ==
  [][run'.pc = run.pc + 1 =>
       LET c == run.syms[run.pc]
           t == run.turtle
           u == run'.turtle
           dx == u.pos[1] - t.pos[1]
           dy == u.pos[2] - t.pos[2]
       IN  /\ c = "f" => dx * dx + dy * dy = 1 /\ u.vectors = t.vectors
           /\ c = "F" => /\ dx * dx + dy * dy = 1
                          /\ u.vectors = t.vectors \o <<t.pos, u.pos>>
           /\ c = "+" => u = [t EXCEPT !.angle = t.angle - run.angle]
           /\ c = "-" => u = [t EXCEPT !.angle = t.angle + run.angle]
           /\ c \in {"[", "]"} => u.vectors = t.vectors
           /\ c \notin {"f", "F", "+", "-", "[", "]"} => u = t]_vars

C13_Witness ==
  /\ run.syms = <<"f", "+", "X", "F", "-">> /\ run.pc = 6
  /\ run.begin = Turtle
  /\ run.turtle = [pos |-> <<1, -1>>, angle |-> 0, states |-> <<>>,
                    vectors |-> <<<<1, 0>>, <<1, -1>>>>]

\* The index of the k-th 'F' of the sequence of run.
IndexOfF(k) ==
  CHOOSE j \in 1..Len(run.syms) :
    run.syms[j] = "F" /\ Count("F", SubSeq(run.syms, 1, j)) = k

\* C15: a symbol never changes the rows the buffer already holds, it only
\* appends; the buffer holds one segment for each 'F' passed so far, and
\* its k-th segment is the move made by the k-th 'F' of the sequence.
C15_DrawOrder ==
  /\ [][SubSeq(run'.turtle.vectors, 1, Len(run.turtle.vectors))
          = run.turtle.vectors]_vars
  /\ [](LET v == run.turtle.vectors
             done == SubSeq(run.syms, 1, run.pc - 1)
         IN  /\ Len(v) = 2 * Count("F", done)
             /\ \A k \in 1..Count("F", done) :
                  /\ v[2 * k - 1] = TurtleAfter(IndexOfF(k) - 1).pos
                  /\ v[2 * k] = TurtleAfter(IndexOfF(k)).pos)

C15_Witness ==
  /\ run.syms = <<"[", "+", "F", "]", "F">> /\ run.pc = 6
  /\ run.begin = Turtle
  /\ run.turtle.vectors = <<<<0, 0>>, <<0, -1>>, <<0, 0>>, <<1, 0>>>>

\* The renders of generation t made by the script.
RendersOf(t) == {k \in 1..Len(main.renders) : main.renders[k].n = t}

=============================================================================
